---- MODULE Spec2Model ----
\* Model of cmd/vault-secrets-webhook/registry/registry.go: one lookup
\* GetEntrypointCmd(clientset, namespace, container, podSpec), followed step
\* by step through Load, the image normalisation and GetImageBlob.
\*
\* Go strings the code inspects character by character (image references,
\* registry names and addresses) are sequences of one-character strings;
\* strings the code only copies or compares whole (secret names, usernames,
\* passwords, the environment value, error messages) are TLA+ strings.
EXTENDS Integers, Sequences, FiniteSets, TLC

\* ---------------------------------------------------------------- bounds
MaxImageLen == 4
MaxAuths == 2

\* ------------------------------------------------------- string literals
HttpsScheme == <<"h","t","t","p","s",":","/","/">>
DockerIoHost == <<"d","o","c","k","e","r",".","i","o">>
Registry1Address == HttpsScheme \o <<"r","e","g","i","s","t","r","y","-","1",".">> \o DockerIoHost
IndexHost == <<"i","n","d","e","x",".">> \o DockerIoHost
IndexAddress == HttpsScheme \o IndexHost
DefaultRegistryAddress == Registry1Address \o <<"/">>
LibraryPrefix == <<"l","i","b","r","a","r","y","/">>

NoErr == "nil"
ErrReadSecret == "cannot read imagePullSecrets"
ErrDecodeCreds == "cannot unmarshal docker configuration from imagePullSecrets"
ErrNoTag == "Cannot find tag for image"
ErrNewClient == "cannot create client for registry"
ErrManifest == "cannot download manifest for image"
ErrDownload == "cannot download blob"
ErrReadBlob == "cannot read blob"
ErrDecodeBlob == "cannot unmarshal BlobResponse JSON"

\* ------------------------------------------------------------ input sets
ImageAlphabet == {"a", "/", ":"}

RECURSIVE StringsUpTo(_)
StringsUpTo(n) ==
    IF n = 0 THEN {<<>>}
    ELSE LET shorter == StringsUpTo(n - 1)
         IN shorter \cup {Append(s, c) : s \in {t \in shorter : Len(t) = n - 1}, c \in ImageAlphabet}

RedisImage == <<"r","e","d","i","s",":","6">>
NginxImage == LibraryPrefix \o <<"n","g","i","n","x",":","1",".","1","9">>
DockerIoRedisImage == DockerIoHost \o <<"/">> \o RedisImage

Images == StringsUpTo(MaxImageLen) \cup {RedisImage, NginxImage, DockerIoRedisImage}

\* keys of the "auths" mapping of a docker-config-json secret
RegistryKeys == {<<"a">>, HttpsScheme \o <<"a">>, DockerIoHost, IndexHost, IndexAddress \o <<"/","v","1","/">>}

AuthConfigs == {[Username |-> "user", Password |-> "pass"], [Username |-> "", Password |-> ""]}

AuthMaps == UNION {[K -> AuthConfigs] : K \in {S \in SUBSET RegistryKeys : Cardinality(S) <= MaxAuths}}

\* podSpec.ImagePullSecrets, each element reduced to its Name
PullSecretLists == {<<>>, <<"">>, <<"regcred">>, <<"regcred", "other">>}

\* the process environment's REGISTRY_SKIP_VERIFY entry
Environments == {[set |-> FALSE, value |-> ""]} \cup {[set |-> TRUE, value |-> v] : v \in {"", "true", "TRUE", "1"}}

\* []string values: Go distinguishes a nil slice from an empty one
NilSlice == [isNil |-> TRUE, elems |-> <<>>]
EntrypointValues == {NilSlice, [isNil |-> FALSE, elems |-> <<>>], [isNil |-> FALSE, elems |-> <<"/entry">>]}
CmdValues == {NilSlice, [isNil |-> FALSE, elems |-> <<"arg">>]}
ImageConfigs == [Entrypoint : EntrypointValues, Cmd : CmdValues]

\* ------------------------------------------------------ library functions
HasPrefix(s, prefix) ==
    Len(s) >= Len(prefix) /\ SubSeq(s, 1, Len(prefix)) = prefix

Chars(s) == {s[i] : i \in 1..Len(s)}

\* strings.TrimLeft(s, cutset): drops every leading character of s that
\* occurs in cutset
RECURSIVE TrimLeft(_, _)
TrimLeft(s, cutset) ==
    IF s = <<>> \/ Head(s) \notin Chars(cutset) THEN s
    ELSE TrimLeft(Tail(s), cutset)

\* strings.Count(s, c) for a one-character c
Count(s, c) == Cardinality({i \in 1..Len(s) : s[i] = c})

\* strings.SplitN(s, sep, 2) for a one-character sep
SplitN2(s, sep) ==
    LET hits == {i \in 1..Len(s) : s[i] = sep}
    IN IF hits = {} THEN <<s>>
       ELSE LET first == CHOOSE i \in hits : \A j \in hits : i <= j
            IN <<SubSeq(s, 1, first - 1), SubSeq(s, first + 1, Len(s))>>

\* os.Getenv: the value, or "" when the variable is not set
Getenv(env) == IF env.set THEN env.value ELSE ""

\* json.Unmarshal(dockerConfig, &dockerCreds): a missing key (nil bytes) and
\* malformed bytes are errors; a JSON document yields its "auths" mapping
UnmarshalDockerCreds(payload) ==
    IF payload.kind = "json"
    THEN [err |-> FALSE, dockerCreds |-> [Auths |-> payload.Auths]]
    ELSE [err |-> TRUE, dockerCreds |-> [Auths |-> <<>>]]

\* ------------------------------------------------------- pure functions
ParseContainerImage_LastColon(image) ==
    LET hits == {i \in 1..Len(image) : image[i] = ":"}
    IN IF hits = {} THEN [imageName |-> <<>>, tag |-> <<>>, err |-> ErrNoTag]
       ELSE LET last == CHOOSE i \in hits : \A j \in hits : i >= j
            IN [imageName |-> SubSeq(image, 1, last - 1),
                tag |-> SubSeq(image, last + 1, Len(image)), err |-> NoErr]

ParseContainerImage(image) ==
    LET split == SplitN2(image, ":")
    IN IF Len(split) <= 1
       THEN [imageName |-> <<>>, tag |-> <<>>, err |-> ErrNoTag]
       ELSE [imageName |-> split[1], tag |-> split[2], err |-> NoErr]

isDockerHub_Registry1Only(registryAddress) ==
    HasPrefix(registryAddress, Registry1Address)

isDockerHub(registryAddress) ==
    HasPrefix(registryAddress, Registry1Address) \/ HasPrefix(registryAddress, IndexAddress)

parseDockerConfig_NoScheme(kk, dockerCreds, key) ==
    [kk EXCEPT !.RegistryName = key,
               !.RegistryAddress = key,
               !.RegistryUsername = dockerCreds.Auths[key].Username,
               !.RegistryPassword = dockerCreds.Auths[key].Password]

\* key is MapKeys()[0], whichever key the map iteration yields first
parseDockerConfig(kk, dockerCreds, key) ==
    [kk EXCEPT !.RegistryName = key,
               !.RegistryAddress = IF ~HasPrefix(key, HttpsScheme) THEN HttpsScheme \o key ELSE key,
               !.RegistryUsername = dockerCreds.Auths[key].Username,
               !.RegistryPassword = dockerCreds.Auths[key].Password]

SkipVerify_AnyValue(registrySkipVerify) == registrySkipVerify # ""

SkipVerify(registrySkipVerify) == registrySkipVerify = "true"

EffectiveRegistryAddress_NoDefault(address) == address

EffectiveRegistryAddress(address) ==
    IF address = <<>> THEN DefaultRegistryAddress ELSE address

DeferClose_Missing(rd) == FALSE

\* "if reader != nil { defer reader.Close() }"
DeferClose(rd) == rd # "nil"

ErrorResult(err) == [entrypoint |-> NilSlice, cmd |-> NilSlice, err |-> err]

UnmarshalBlobResult_Partial(failed, meta) ==
    [entrypoint |-> meta.Entrypoint, cmd |-> meta.Cmd,
     err |-> IF failed THEN ErrDecodeBlob ELSE NoErr]

\* the tail of GetImageBlob: json.Unmarshal's outcome to the return values
UnmarshalBlobResult(failed, meta) ==
    IF failed THEN ErrorResult(ErrDecodeBlob)
    ELSE [entrypoint |-> meta.Entrypoint, cmd |-> meta.Cmd, err |-> NoErr]

\* ----------------------------------------------------------------- state
VARIABLES container, podSpec, environ, pc, k, secretData, dockerCreds,
          args, parsed, hub, reader, deferred, closeCount, imageMetadata,
          result, calls

vars == <<container, podSpec, environ, pc, k, secretData, dockerCreds,
          args, parsed, hub, reader, deferred, closeCount, imageMetadata,
          result, calls>>

NoSecretData == [kind |-> "none", Auths |-> <<>>]
NoDockerCreds == [Auths |-> <<>>]
NoArgs == [url |-> <<>>, username |-> "", password |-> "", image |-> <<>>]
NoParsed == [imageName |-> <<>>, tag |-> <<>>, err |-> NoErr]
NoHub == [called |-> FALSE, insecure |-> FALSE, url |-> <<>>, username |-> "", password |-> ""]
NoImageMetadata == [Entrypoint |-> NilSlice, Cmd |-> NilSlice]
NoResult == [entrypoint |-> NilSlice, cmd |-> NilSlice, err |-> NoErr]

Init ==
    /\ container \in [Image : Images]
    /\ podSpec \in [ImagePullSecrets : PullSecretLists]
    /\ environ \in Environments
    /\ pc = "start"
    /\ k = [ImagePullSecrets |-> "", RegistryAddress |-> <<>>, RegistryName |-> <<>>,
            RegistryUsername |-> "", RegistryPassword |-> "", Image |-> <<>>]
    /\ secretData = NoSecretData
    /\ dockerCreds = NoDockerCreds
    /\ args = NoArgs
    /\ parsed = NoParsed
    /\ hub = NoHub
    /\ reader = "nil"
    /\ deferred = FALSE
    /\ closeCount = 0
    /\ imageMetadata = NoImageMetadata
    /\ result = NoResult
    /\ calls = <<>>

Stage(name, ok) == [stage |-> name, ok |-> ok]

\* a return statement: the deferred reader.Close() runs, the values go back
\* to the caller
Return(res) ==
    /\ pc' = "returned"
    /\ result' = res
    /\ reader' = IF deferred THEN "closed" ELSE reader
    /\ closeCount' = IF deferred THEN closeCount + 1 ELSE closeCount

\* Load up to the secret read: k.Image, k.ImagePullSecrets
Load ==
    /\ pc = "start"
    /\ LET k1 == [k EXCEPT !.Image = container.Image]
       IN IF Len(podSpec.ImagePullSecrets) >= 1
          THEN LET k2 == [k1 EXCEPT !.ImagePullSecrets = podSpec.ImagePullSecrets[1]]
               IN /\ k' = k2
                  /\ pc' = IF k2.ImagePullSecrets # "" THEN "readSecret" ELSE "loaded"
          ELSE /\ k' = k1
               /\ pc' = "loaded"
    /\ UNCHANGED <<container, podSpec, environ, secretData, dockerCreds, args, parsed,
                   hub, reader, deferred, closeCount, imageMetadata, result, calls>>

\* k.readDockerSecret: the cluster API answers with an error or with the
\* secret's data, of which Load uses the docker-config-json entry
readDockerSecret ==
    /\ pc = "readSecret"
    /\ \/ /\ calls' = Append(calls, Stage("secretRead", FALSE))
          /\ Return(ErrorResult(ErrReadSecret))
          /\ UNCHANGED secretData
       \/ /\ calls' = Append(calls, Stage("secretRead", TRUE))
          /\ \E payload \in [kind : {"missing", "malformed"}, Auths : {<<>>}]
                           \cup [kind : {"json"}, Auths : AuthMaps] :
                secretData' = payload
          /\ pc' = "decodeCreds"
          /\ UNCHANGED <<result, reader, closeCount>>
    /\ UNCHANGED <<container, podSpec, environ, k, dockerCreds, args, parsed,
                   hub, deferred, imageMetadata>>

\* json.Unmarshal of the payload, then parseDockerConfig, whose
\* MapKeys()[0] is an index out of range on an empty mapping
LoadDockerCreds ==
    /\ pc = "decodeCreds"
    /\ LET decoded == UnmarshalDockerCreds(secretData)
       IN IF decoded.err
          THEN /\ calls' = Append(calls, Stage("credsDecode", FALSE))
               /\ Return(ErrorResult(ErrDecodeCreds))
               /\ UNCHANGED <<k, dockerCreds>>
          ELSE /\ calls' = Append(calls, Stage("credsDecode", TRUE))
               /\ dockerCreds' = decoded.dockerCreds
               /\ IF DOMAIN decoded.dockerCreds.Auths = {}
                  THEN /\ pc' = "panic"
                       /\ UNCHANGED k
                  ELSE /\ \E key \in DOMAIN decoded.dockerCreds.Auths :
                             k' = parseDockerConfig(k, decoded.dockerCreds, key)
                       /\ pc' = "loaded"
               /\ UNCHANGED <<result, reader, closeCount>>
    /\ UNCHANGED <<container, podSpec, environ, secretData, args, parsed,
                   hub, deferred, imageMetadata>>

\* GetEntrypointCmd after Load returned nil: the registry name is trimmed
\* from the image; Load's locals are gone
TrimRegistryName ==
    /\ pc = "loaded"
    /\ k' = IF k.RegistryName # <<>>
            THEN [k EXCEPT !.Image = TrimLeft(k.Image, k.RegistryName \o <<"/">>)]
            ELSE k
    /\ secretData' = NoSecretData
    /\ dockerCreds' = NoDockerCreds
    /\ pc' = "address"
    /\ UNCHANGED <<container, podSpec, environ, args, parsed, hub, reader, deferred,
                   closeCount, imageMetadata, result, calls>>

\* the default address, the library/ prefix and the call of GetImageBlob
CallGetImageBlob ==
    /\ pc = "address"
    /\ LET registryAddress == EffectiveRegistryAddress(k.RegistryAddress)
           image == IF isDockerHub(registryAddress) /\ Count(k.Image, "/") = 0
                    THEN LibraryPrefix \o k.Image
                    ELSE k.Image
       IN /\ k' = [k EXCEPT !.Image = image]
          /\ args' = [url |-> registryAddress, username |-> k.RegistryUsername,
                      password |-> k.RegistryPassword, image |-> image]
    /\ pc' = "parse"
    /\ UNCHANGED <<container, podSpec, environ, secretData, dockerCreds, parsed, hub,
                   reader, deferred, closeCount, imageMetadata, result, calls>>

\* GetImageBlob: ParseContainerImage(image)
ParseImage ==
    /\ pc = "parse"
    /\ parsed' = ParseContainerImage(args.image)
    /\ IF parsed'.err # NoErr
       THEN /\ calls' = Append(calls, Stage("tagParse", FALSE))
            /\ Return(ErrorResult(parsed'.err))
       ELSE /\ calls' = Append(calls, Stage("tagParse", TRUE))
            /\ pc' = "newClient"
            /\ UNCHANGED <<result, reader, closeCount>>
    /\ UNCHANGED <<container, podSpec, environ, k, secretData, dockerCreds, args,
                   hub, deferred, imageMetadata>>

\* GetImageBlob: registry.NewInsecure or registry.New
NewRegistryClient ==
    /\ pc = "newClient"
    /\ hub' = [called |-> TRUE, insecure |-> SkipVerify(Getenv(environ)),
               url |-> args.url, username |-> args.username, password |-> args.password]
    /\ \/ /\ calls' = Append(calls, Stage("clientCreate", FALSE))
          /\ Return(ErrorResult(ErrNewClient))
       \/ /\ calls' = Append(calls, Stage("clientCreate", TRUE))
          /\ pc' = "manifest"
          /\ UNCHANGED <<result, reader, closeCount>>
    /\ UNCHANGED <<container, podSpec, environ, k, secretData, dockerCreds, args,
                   parsed, deferred, imageMetadata>>

\* GetImageBlob: hub.ManifestV2(imageName, tag)
ManifestV2_NoReturn ==
    /\ pc = "manifest"
    /\ \E ok \in BOOLEAN : calls' = Append(calls, Stage("manifestFetch", ok))
    /\ pc' = "download"
    /\ UNCHANGED <<container, podSpec, environ, k, secretData, dockerCreds, args,
                   parsed, hub, reader, deferred, closeCount, imageMetadata, result>>

ManifestV2 ==
    /\ pc = "manifest"
    /\ \/ /\ calls' = Append(calls, Stage("manifestFetch", FALSE))
          /\ Return(ErrorResult(ErrManifest))
       \/ /\ calls' = Append(calls, Stage("manifestFetch", TRUE))
          /\ pc' = "download"
          /\ UNCHANGED <<result, reader, closeCount>>
    /\ UNCHANGED <<container, podSpec, environ, k, secretData, dockerCreds, args,
                   parsed, hub, deferred, imageMetadata>>

\* GetImageBlob: hub.DownloadBlob returns a stream, an error, or both; the
\* close is deferred as soon as a stream came back. A nil stream without an
\* error is not among the outcomes: the registry client returns the HTTP
\* response body whenever the request succeeded.
DownloadBlob ==
    /\ pc = "download"
    /\ \E rd \in {"nil", "open"}, failed \in BOOLEAN :
          /\ rd = "nil" => failed
          /\ calls' = Append(calls, Stage("blobDownload", ~failed))
          /\ deferred' = DeferClose(rd)
          /\ IF failed
             THEN /\ pc' = "returned"
                  /\ result' = ErrorResult(ErrDownload)
                  /\ reader' = IF deferred' THEN "closed" ELSE rd
                  /\ closeCount' = IF deferred' THEN closeCount + 1 ELSE closeCount
             ELSE /\ pc' = "readAll"
                  /\ reader' = rd
                  /\ UNCHANGED <<result, closeCount>>
    /\ UNCHANGED <<container, podSpec, environ, k, secretData, dockerCreds, args,
                   parsed, hub, imageMetadata>>

\* GetImageBlob: ioutil.ReadAll(reader)
ReadAll ==
    /\ pc = "readAll"
    /\ \/ /\ calls' = Append(calls, Stage("blobRead", FALSE))
          /\ Return(ErrorResult(ErrReadBlob))
       \/ /\ calls' = Append(calls, Stage("blobRead", TRUE))
          /\ pc' = "unmarshal"
          /\ UNCHANGED <<result, reader, closeCount>>
    /\ UNCHANGED <<container, podSpec, environ, k, secretData, dockerCreds, args,
                   parsed, hub, deferred, imageMetadata>>

\* GetImageBlob: json.Unmarshal(b, &imageMetadata) and the final return; a
\* failed Unmarshal may already have filled some fields of imageMetadata
UnmarshalBlob ==
    /\ pc = "unmarshal"
    /\ \E failed \in BOOLEAN, meta \in ImageConfigs :
          /\ calls' = Append(calls, Stage("configDecode", ~failed))
          /\ imageMetadata' = meta
          /\ Return(UnmarshalBlobResult(failed, meta))
    /\ UNCHANGED <<container, podSpec, environ, k, secretData, dockerCreds, args,
                   parsed, hub, deferred>>

Next ==
    \/ Load
    \/ readDockerSecret
    \/ LoadDockerCreds
    \/ TrimRegistryName
    \/ CallGetImageBlob
    \/ ParseImage
    \/ NewRegistryClient
    \/ ManifestV2
    \/ DownloadBlob
    \/ ReadAll
    \/ UnmarshalBlob

Spec == Init /\ [][Next]_vars

\* ---------------------------------------------------------------- claims
StageOrder == <<"secretRead", "credsDecode", "tagParse", "clientCreate",
                "manifestFetch", "blobDownload", "blobRead", "configDecode">>
StageErrors == <<ErrReadSecret, ErrDecodeCreds, ErrNoTag, ErrNewClient,
                 ErrManifest, ErrDownload, ErrReadBlob, ErrDecodeBlob>>
StageIndex(name) == CHOOSE i \in 1..Len(StageOrder) : StageOrder[i] = name
Invoked(name) == \E i \in 1..Len(calls) : calls[i].stage = name

\* C1: a returned error comes with a nil entrypoint and a nil cmd; a return
\* without error carries the entrypoint and cmd of the decoded image config.
C1_NoPartialSuccess ==
    pc = "returned" =>
        IF result.err # NoErr
        THEN result.entrypoint = NilSlice /\ result.cmd = NilSlice
        ELSE /\ result.entrypoint = imageMetadata.Entrypoint
             /\ result.cmd = imageMetadata.Cmd

C1_Witness ==
    /\ pc = "returned"
    /\ result.err = ErrDecodeBlob
    /\ imageMetadata.Entrypoint # NilSlice
    /\ imageMetadata.Cmd # NilSlice

\* C2: after the trimming step the image is the container's image with
\* exactly the prefix "<RegistryName>/" removed when it starts with it, and
\* the container's image unchanged otherwise.
C2_ExactPrefixRemoved ==
    (pc = "address" /\ k.RegistryName # <<>>) =>
        LET prefix == k.RegistryName \o <<"/">>
        IN k.Image = IF HasPrefix(container.Image, prefix)
                     THEN SubSeq(container.Image, Len(prefix) + 1, Len(container.Image))
                     ELSE container.Image

\* C3: when the pull secret decodes to a mapping with no entries, Load does
\* not crash, selects nothing and leaves the registry fields empty.
C3_EmptyMappingSelectsNothing ==
    (Invoked("credsDecode") /\ secretData.kind = "json" /\ DOMAIN secretData.Auths = {}) =>
        /\ pc # "panic"
        /\ k.RegistryName = <<>> /\ k.RegistryAddress = <<>>
        /\ k.RegistryUsername = "" /\ k.RegistryPassword = ""

\* C4: the stages run in the fixed order, consecutively and each at most
\* once, starting at the secret read or (without a pull secret) at the tag
\* parse; only the last invoked stage can have failed, a failed stage ends
\* the run, and the returned error is that stage's error.
C4_StagesInOrder ==
    /\ calls # <<>> => calls[1].stage \in {"secretRead", "tagParse"}
    /\ \A i \in 1..(Len(calls) - 1) :
          /\ calls[i].ok
          /\ StageIndex(calls[i + 1].stage) = StageIndex(calls[i].stage) + 1
    /\ \A i, j \in 1..Len(calls) : calls[i].stage = calls[j].stage => i = j
    /\ (calls # <<>> /\ ~calls[Len(calls)].ok) =>
          /\ pc = "returned"
          /\ result.err = StageErrors[StageIndex(calls[Len(calls)].stage)]
    /\ (pc = "returned" /\ result.err # NoErr) =>
          (calls # <<>> /\ ~calls[Len(calls)].ok)
    /\ (pc = "returned" /\ result.err = NoErr) =>
          calls[Len(calls)].stage = "configDecode"

C4_Witness ==
    /\ pc = "returned"
    /\ result.err = ErrDownload
    /\ Len(calls) = 6
    /\ calls[1].stage = "secretRead"
    /\ calls[6] = Stage("blobDownload", FALSE)

\* C5: a stream returned by the blob download is closed exactly once by the
\* time GetImageBlob has returned, whichever way it returns; nothing is
\* closed when no stream was returned.
C5_StreamClosedOnce ==
    /\ closeCount <= 1
    /\ reader = "nil" => closeCount = 0
    /\ (pc = "returned" /\ reader # "nil") => (closeCount = 1 /\ reader = "closed")
    /\ pc # "returned" => closeCount = 0

C5_Witness ==
    /\ pc = "returned"
    /\ result.err = ErrDownload
    /\ reader = "closed"
    /\ closeCount = 1

\* C6: ParseContainerImage fails with empty name and tag on an image without
\* ':'; otherwise the name is the part before the first ':' and the tag all
\* that follows it.
C6_ParseContainerImage ==
    Invoked("tagParse") =>
        IF ":" \notin Chars(args.image)
        THEN /\ parsed.err = ErrNoTag
             /\ parsed.imageName = <<>>
             /\ parsed.tag = <<>>
        ELSE /\ parsed.err = NoErr
             /\ ":" \notin Chars(parsed.imageName)
             /\ parsed.imageName \o <<":">> \o parsed.tag = args.image

C6_Witness ==
    /\ Invoked("tagParse")
    /\ args.image = NginxImage
    /\ parsed.imageName = <<"l","i","b","r","a","r","y","/","n","g","i","n","x">>
    /\ parsed.tag = <<"1",".","1","9">>
    /\ parsed.err = NoErr

\* C7: the image handed to GetImageBlob is "library/" followed by the image
\* when the address in use starts with one of the two Docker Hub addresses
\* and the image holds no '/', and the image itself in every other case.
C7_LibraryPrefix ==
    [][pc = "address" =>
          LET onDockerHub == \/ HasPrefix(args'.url, Registry1Address)
                             \/ HasPrefix(args'.url, IndexAddress)
          IN args'.image = IF onDockerHub /\ "/" \notin Chars(k.Image)
                           THEN LibraryPrefix \o k.Image
                           ELSE k.Image]_vars

C7_Witness ==
    /\ container.Image = RedisImage
    /\ args.url = DefaultRegistryAddress
    /\ args.image = LibraryPrefix \o RedisImage

\* C8: without image-pull secrets Load reads no secret, copies the image,
\* leaves the pull-secret and registry fields empty and does not fail; the
\* registry client is then built for https://registry-1.docker.io/ with
\* empty credentials.
C8_NoPullSecrets ==
    podSpec.ImagePullSecrets = <<>> =>
        /\ ~Invoked("secretRead") /\ ~Invoked("credsDecode")
        /\ pc \notin {"readSecret", "decodeCreds", "panic"}
        /\ k.ImagePullSecrets = ""
        /\ k.RegistryAddress = <<>> /\ k.RegistryName = <<>>
        /\ k.RegistryUsername = "" /\ k.RegistryPassword = ""
        /\ pc = "loaded" => k.Image = container.Image
        /\ pc = "returned" => result.err \notin {ErrReadSecret, ErrDecodeCreds}
        /\ hub.called =>
              /\ hub.url = DefaultRegistryAddress
              /\ hub.username = "" /\ hub.password = ""

C8_Witness ==
    /\ podSpec.ImagePullSecrets = <<>>
    /\ hub.called
    /\ hub.url = DefaultRegistryAddress
    /\ hub.username = ""

\* C9: from a mapping with exactly one entry, parseDockerConfig takes the
\* key as RegistryName, the entry's username and password, and as
\* RegistryAddress the key itself if it starts with "https://" and
\* "https://" followed by the key otherwise.
C9_SingleEntry ==
    (pc = "loaded" /\ Cardinality(DOMAIN dockerCreds.Auths) = 1) =>
        LET key == CHOOSE x \in DOMAIN dockerCreds.Auths : TRUE
        IN /\ k.RegistryName = key
           /\ k.RegistryUsername = dockerCreds.Auths[key].Username
           /\ k.RegistryPassword = dockerCreds.Auths[key].Password
           /\ k.RegistryAddress = IF HasPrefix(key, HttpsScheme) THEN key ELSE HttpsScheme \o key
           /\ HasPrefix(k.RegistryAddress, HttpsScheme)

C9_Witness ==
    /\ pc = "loaded"
    /\ DOMAIN dockerCreds.Auths = {IndexHost}
    /\ k.RegistryAddress = IndexAddress
    /\ k.RegistryUsername = "user"

\* C10: the registry client is created without certificate verification
\* exactly when REGISTRY_SKIP_VERIFY is set to "true", and in both cases
\* with the url, username and password GetImageBlob was called with.
C10_SkipVerify ==
    hub.called =>
        /\ hub.insecure <=> (environ.set /\ environ.value = "true")
        /\ hub.url = args.url
        /\ hub.username = args.username
        /\ hub.password = args.password

C10_Witness ==
    /\ hub.called
    /\ environ.set /\ environ.value = "TRUE"
    /\ ~hub.insecure

====
